---- MODULE Spec2Model ----
(***************************************************************************)
(* A model of example/server.py: NoCacheHandler, a SimpleHTTPRequestHandler *)
(* whose end_headers adds three cache-defeating headers, and main(), which  *)
(* reads PORT and ROOT_DIR, binds a ThreadingHTTPServer on 127.0.0.1 and    *)
(* serves until interrupted.                                                *)
(*                                                                          *)
(* server.py is 27 lines; what a request gets is decided by the classes it  *)
(* inherits from and instantiates (http.server, socketserver of CPython     *)
(* 3.11).  Their behaviour is modelled from their code, operator by         *)
(* operator, under the names they have there.                               *)
(*                                                                          *)
(* A path string is modelled as the sequence of its "/"-separated pieces:   *)
(* "/docs/" is <<"", "docs", "">>, "./" is <<".", "">>, "a" is <<"a">>.      *)
(***************************************************************************)
EXTENDS Integers, Sequences, FiniteSets, TLC

(***************************************************************************)
(* Bounds of the model.                                                     *)
(***************************************************************************)
\* connections accepted in one run of the server
MaxConn == 2
\* "/"-separated pieces of a request path in the path-resolution runs
MaxSegs == 3

(***************************************************************************)
(* Sequences.                                                               *)
(***************************************************************************)
Last(s) == s[Len(s)]

Front(s) == SubSeq(s, 1, Len(s) - 1)

RECURSIVE Flatten(_)
Flatten(ss) == IF ss = <<>> THEN <<>> ELSE Head(ss) \o Flatten(Tail(ss))

IsPrefix(p, s) == Len(p) <= Len(s) /\ SubSeq(s, 1, Len(p)) = p

Range(s) == {s[i] : i \in 1..Len(s)}

(***************************************************************************)
(* The process environment and the filesystem the server runs on.           *)
(***************************************************************************)
\* os.environ: a variable is unset (Unset) or holds a string
Unset == "<unset>"

PortChoices == {Unset, "8080", "http"}

RootChoices == {Unset, "/srv/www"}

\* os.getcwd(), as the names from the filesystem root
cwd == <<"srv", "www">>

\* a path string as its pieces
PathOf(s) ==
    CASE s = "./" -> <<".", "">>
      [] s = "/srv/www" -> <<"", "srv", "www">>

\* int(s) of line 14 raises ValueError unless s is a numeral
IsNumeral(s) == s \in {"8000", "8080"}

int(s) ==
    CASE s = "8000" -> 8000
      [] s = "8080" -> 8080

File(data, fault) == [type |-> "file", data |-> data, fault |-> fault]

Dir(fault) == [type |-> "dir", data |-> "", fault |-> fault]

\* what lies outside the served directory: its parents and one file beside it
Outside ==
    (<<>> :> Dir("none")) @@ (<<"srv">> :> Dir("none")) @@
    (<<"srv", "www">> :> Dir("none")) @@
    (<<"srv", "secret.txt">> :> File("SECRET", "none"))

\* the served directory's contents: a file may refuse to open (fault "open",
\* permission denied) or to be read (fault "read", an I/O error), a directory
\* to be listed (fault "open")
FileSystems ==
    { Outside,
      Outside @@ (<<"srv", "www", "index.html">> :> File("hello", "none")),
      Outside @@ (<<"srv", "www", "index.html">> :> File("hello", "none")) @@
          (<<"srv", "www", "docs">> :> Dir("none")) @@
          (<<"srv", "www", "docs", "a.txt">> :> File("doc", "none")),
      Outside @@ (<<"srv", "www", "secret.txt">> :> File("inner", "none")) @@
          (<<"srv", "www", "docs">> :> Dir("none")) @@
          (<<"srv", "www", "docs", "index.html">> :> File("docindex", "none")),
      Outside @@ (<<"srv", "www", "index.html">> :> File("hello", "open")),
      Outside @@ (<<"srv", "www", "index.html">> :> File("hello", "read")) @@
          (<<"srv", "www", "docs">> :> Dir("open")) }

(***************************************************************************)
(* The operating system's view of a path string.                            *)
(***************************************************************************)
RECURSIVE Walk(_, _)
\* the node a path's pieces lead to from node at: "" and "." stay, ".." goes up
Walk(at, pieces) ==
    IF pieces = <<>> THEN at
    ELSE LET p == Head(pieces) IN
         Walk(IF p \in {"", "."} THEN at
              ELSE IF p = ".." THEN (IF at = <<>> THEN at ELSE Front(at))
              ELSE Append(at, p),
              Tail(pieces))

\* the node a path string names: from the filesystem root when it starts with
\* "/", from the working directory otherwise
Resolve(p) == IF p[1] = "" THEN Walk(<<>>, p) ELSE Walk(cwd, p)

\* a path string that ends in "/" names a directory or nothing
EndsWithSlash(p) == Len(p) > 1 /\ Last(p) = ""

isdir(f, p) == Resolve(p) \in DOMAIN f /\ f[Resolve(p)].type = "dir"

isfile(f, p) ==
    /\ Resolve(p) \in DOMAIN f
    /\ f[Resolve(p)].type = "file"
    /\ ~EndsWithSlash(p)

\* open(p, 'rb') succeeds; anything else raises OSError
CanOpen(f, p) == isfile(f, p) /\ f[Resolve(p)].fault # "open"

\* os.listdir(p) succeeds
CanList(f, p) == isdir(f, p) /\ f[Resolve(p)].fault # "open"

\* os.listdir(p): the names in directory p
listdir(f, p) ==
    {Last(q) : q \in {n \in DOMAIN f : n # <<>> /\ Front(n) = Resolve(p)}}

\* os.path.join(p, word) for a word without "/"
join(p, word) == IF Last(p) = "" THEN Append(Front(p), word) ELSE Append(p, word)

\* os.path.abspath(p)
abspath(p) == <<"">> \o Resolve(p)

(***************************************************************************)
(* Request paths (urllib.parse.unquote, posixpath.normpath and              *)
(* SimpleHTTPRequestHandler.translate_path).                                *)
(***************************************************************************)
\* the pieces a request path is made of
Pieces == {"", ".", "..", "%2e%2e", "..%2fsecret.txt", "docs", "secret.txt", "index.html"}

\* urllib.parse.unquote of one piece: %2e is ".", %2f is "/", which separates
unquote1(piece) ==
    CASE piece = "%2e%2e" -> <<"..">>
      [] piece = "..%2fsecret.txt" -> <<"..", "secret.txt">>
      [] OTHER -> <<piece>>

unquote(path) == Flatten([i \in 1..Len(path) |-> unquote1(path[i])])

\* the path starts with "/"
StartsWithSlash(path) == Len(path) > 1 /\ path[1] = ""

RECURSIVE NormComps(_, _, _)
\* the loop of posixpath.normpath over the components comps
NormComps(comps, initial_slashes, new_comps) ==
    IF comps = <<>> THEN new_comps
    ELSE LET comp == Head(comps) IN
         NormComps(Tail(comps), initial_slashes,
             IF comp \in {"", "."} THEN new_comps
             ELSE IF \/ comp # ".."
                     \/ (~initial_slashes /\ new_comps = <<>>)
                     \/ (new_comps # <<>> /\ Last(new_comps) = "..")
                  THEN Append(new_comps, comp)
             ELSE IF new_comps # <<>> THEN Front(new_comps)
             ELSE new_comps)

\* the components of posixpath.normpath(path), which translate_path splits
\* the result back into
normpath(path) == NormComps(path, StartsWithSlash(path), <<>>)

RECURSIVE JoinWords_keeping_dots(_, _)
\* translate_path's loop without its test for "." and "..": every word is
\* joined
JoinWords_keeping_dots(path, words) ==
    IF words = <<>> THEN path
    ELSE JoinWords_keeping_dots(join(path, Head(words)), Tail(words))

RECURSIVE JoinWords(_, _)
\* translate_path's loop: "." and ".." are not joined
JoinWords(path, words) ==
    IF words = <<>> THEN path
    ELSE JoinWords(IF Head(words) \in {".", ".."} THEN path
                   ELSE join(path, Head(words)),
                   Tail(words))

\* translate_path as os.path.join(directory, path) would be: the unquoted
\* request path is put after the directory as it is
translate_path_joined(directory, path) ==
    (IF Last(directory) = "" THEN Front(directory) ELSE directory)
        \o SelectSeq(unquote(path), LAMBDA w : w # "")
        \o (IF EndsWithSlash(path) THEN <<"">> ELSE <<>>)

\* SimpleHTTPRequestHandler.translate_path with self.directory = directory
translate_path(directory, path) ==
    LET trailing_slash == EndsWithSlash(path)
        words == normpath(unquote(path))
        joined == JoinWords(directory, words)
    IN IF trailing_slash THEN Append(joined, "") ELSE joined

\* parse_request: a path that starts with "//" is reduced to a single "/"
RECURSIVE lstrip(_)
lstrip(path) ==
    IF Len(path) > 1 /\ Head(path) = "" THEN lstrip(Tail(path)) ELSE path

ReduceSlashes(path) ==
    IF Len(path) > 2 /\ path[1] = "" /\ path[2] = ""
    THEN <<"">> \o lstrip(path)
    ELSE path

\* guess_type: the content type of a file name's extension
guess_type(path) ==
    CASE Last(path) \in {"index.html"} -> "text/html"
      [] Last(path) \in {"secret.txt", "a.txt"} -> "text/plain"
      [] OTHER -> "application/octet-stream"

(***************************************************************************)
(* Requests and responses.                                                  *)
(***************************************************************************)
\* the text of a path: its pieces joined by "/"
RECURSIVE Text(_)
Text(path) ==
    IF Len(path) = 1 THEN path[1] ELSE path[1] \o "/" \o Text(Tail(path))

\* A request: its request line is too long (kind "long"), or has two words
\* (kind "simple": command and path) or three (kind "full": command, path and
\* version); ims says that an If-Modified-Since header names a time that is
\* not before the file's last modification.
Request(kind, command, path, version, ims) ==
    [kind |-> kind, command |-> command, path |-> path, version |-> version,
     ims |-> ims]

\* the version number parse_request reads from the third word; <<>> when the
\* word is not HTTP/<int>.<int>
version_number(version) ==
    CASE version = "HTTP/0.9" -> <<0, 9>>
      [] version = "HTTP/1.0" -> <<1, 0>>
      [] version = "HTTP/1.1" -> <<1, 1>>
      [] version = "HTTP/2.0" -> <<2, 0>>
      [] OTHER -> <<>>

\* BaseHTTPRequestHandler.protocol_version
protocol_version == "HTTP/1.0"

NoBody == [kind |-> "none", code |-> 0, text |-> "", names |-> {}]

FileBody(data) == [kind |-> "file", code |-> 0, text |-> data, names |-> {}]

\* the HTML page of send_error (the fixed text of its template is left out)
ErrorBody(code, message) ==
    [kind |-> "error", code |-> code, text |-> message, names |-> {}]

\* the HTML page of list_directory: a title and a link per entry
ListingBody(title, names) ==
    [kind |-> "listing", code |-> 0, text |-> title, names |-> names]

\* len() of a body
Size(body) ==
    IF body.kind = "listing" THEN Len(body.text) + Cardinality(body.names)
    ELSE Len(body.text)

\* what a handler still has to write once the headers are out: nothing, or a
\* body, read from file src when it is a file's
Nothing == [body |-> NoBody, src |-> <<>>]

Pending(body, src) == [body |-> body, src |-> src]

(***************************************************************************)
(* The request handler: one instance per connection.                        *)
(***************************************************************************)
\* A handler before StreamRequestHandler.setup: no connection yet.
NoHandler ==
    [phase |-> "free",
     req |-> Request("full", "", <<"">>, "", FALSE),
     directory |-> <<"">>,
     request_version |-> "",
     command |-> "",
     path |-> <<"">>,
     close_connection |-> TRUE,
     _headers_buffer |-> <<>>,
     wfile |-> [head |-> <<>>, body |-> <<>>],
     pending |-> Nothing,
     fsaccess |-> {},
     log |-> <<>>,
     traceback |-> FALSE]

\* partial(NoCacheHandler, directory=root) called by finish_request: the
\* handler of a connection on which req arrives
NewHandler(directory, req) ==
    [NoHandler EXCEPT !.phase = "accepted", !.req = req,
                      !.directory = directory]

\* BaseHTTPRequestHandler.send_response_only
send_response_only(h, code) ==
    IF h.request_version # "HTTP/0.9"
    THEN [h EXCEPT !._headers_buffer =
                       Append(@, <<protocol_version, ToString(code)>>)]
    ELSE h

\* BaseHTTPRequestHandler.send_header
send_header(h, keyword, value) ==
    LET h1 == IF h.request_version # "HTTP/0.9"
              THEN [h EXCEPT !._headers_buffer = Append(@, <<keyword, value>>)]
              ELSE h
    IN IF keyword = "Connection"
       THEN IF value = "close" THEN [h1 EXCEPT !.close_connection = TRUE]
            ELSE IF value = "keep-alive"
                 THEN [h1 EXCEPT !.close_connection = FALSE]
            ELSE h1
       ELSE h1

\* BaseHTTPRequestHandler.send_response: log_request, the status line and the
\* Server and Date headers
send_response(h, code) ==
    LET h1 == [h EXCEPT !.log = Append(@, code)]
        h2 == send_response_only(h1, code)
        h3 == send_header(h2, "Server", "SimpleHTTP/0.6")
    IN send_header(h3, "Date", "now")

\* BaseHTTPRequestHandler.flush_headers
flush_headers(h) ==
    [h EXCEPT !.wfile.head = @ \o h._headers_buffer, !._headers_buffer = <<>>]

\* BaseHTTPRequestHandler.end_headers: the blank line, and the buffer is written
BaseHTTPRequestHandler_end_headers(h) ==
    IF h.request_version # "HTTP/0.9"
    THEN flush_headers([h EXCEPT !._headers_buffer = Append(@, <<"", "">>)])
    ELSE h

\* the three headers of lines 8-10
NoCacheHeaders ==
    << <<"Cache-Control", "no-store, no-cache, must-revalidate, max-age=0">>,
       <<"Pragma", "no-cache">>,
       <<"Expires", "0">> >>

\* end_headers adding its headers to successful responses only
end_headers_on_success(h) ==
    IF h._headers_buffer # <<>> /\ h._headers_buffer[1][2] = "200"
    THEN BaseHTTPRequestHandler_end_headers(
             send_header(
                 send_header(
                     send_header(h, "Cache-Control",
                                 "no-store, no-cache, must-revalidate, max-age=0"),
                     "Pragma", "no-cache"),
                 "Expires", "0"))
    ELSE BaseHTTPRequestHandler_end_headers(h)

\* end_headers calling super().end_headers() first: the three headers are
\* buffered after the header block has been written
end_headers_after_super(h) ==
    LET h0 == BaseHTTPRequestHandler_end_headers(h)
        h1 == send_header(h0, "Cache-Control",
                          "no-store, no-cache, must-revalidate, max-age=0")
        h2 == send_header(h1, "Pragma", "no-cache")
    IN send_header(h2, "Expires", "0")

\* NoCacheHandler.end_headers
end_headers(h) ==
    LET h1 == send_header(h, "Cache-Control",
                          "no-store, no-cache, must-revalidate, max-age=0")
        h2 == send_header(h1, "Pragma", "no-cache")
        h3 == send_header(h2, "Expires", "0")
    IN BaseHTTPRequestHandler_end_headers(h3)

\* BaseHTTPRequestHandler.send_error up to its call of end_headers; the body
\* is written after it unless the command is HEAD
send_error(h, code, message) ==
    LET h1 == send_response(h, code)
        h2 == send_header(h1, "Connection", "close")
        hasbody == code >= 200 /\ code \notin {204, 205, 304}
        body == ErrorBody(code, message)
        h3 == IF hasbody
              THEN send_header(
                       send_header(h2, "Content-Type", "text/html;charset=utf-8"),
                       "Content-Length", ToString(Size(body)))
              ELSE h2
    IN [h3 EXCEPT !.pending = IF hasbody /\ h.command # "HEAD"
                              THEN Pending(body, <<>>) ELSE Nothing]

\* SimpleHTTPRequestHandler.list_directory up to its call of end_headers
list_directory(h, f, path) ==
    LET h0 == [h EXCEPT !.fsaccess = @ \cup {path}] IN
    IF ~CanList(f, path)
    THEN send_error(h0, 404, "No permission to list directory")
    ELSE LET list == listdir(f, path)
             shown == {IF isdir(f, join(path, name)) THEN name \o "/" ELSE name :
                       name \in list}
             body == ListingBody("Directory listing for " \o Text(unquote(h.path)),
                                 shown)
             h1 == [h0 EXCEPT !.fsaccess = @ \cup {join(path, name) : name \in list}]
             h2 == send_response(h1, 200)
             h3 == send_header(h2, "Content-type", "text/html; charset=utf-8")
             h4 == send_header(h3, "Content-Length", ToString(Size(body)))
         IN [h4 EXCEPT !.pending = Pending(body, <<>>)]

\* send_file answering a file that does not open with 500
send_file_500(h, f, path) ==
    LET h0 == [h EXCEPT !.fsaccess = @ \cup {path}] IN
    IF EndsWithSlash(path) THEN send_error(h, 404, "File not found")
    ELSE IF ~CanOpen(f, path) THEN send_error(h0, 500, "Internal Server Error")
    ELSE IF h.req.ims THEN send_response(h0, 304)
    ELSE LET data == f[Resolve(path)].data
             h1 == send_response(h0, 200)
             h2 == send_header(h1, "Content-type", guess_type(path))
             h3 == send_header(h2, "Content-Length", ToString(Len(data)))
             h4 == send_header(h3, "Last-Modified", "mtime")
         IN [h4 EXCEPT !.pending = Pending(FileBody(data), path)]

\* SimpleHTTPRequestHandler.send_head from the open() of path on, up to its
\* call of end_headers
send_file(h, f, path) ==
    LET h0 == [h EXCEPT !.fsaccess = @ \cup {path}] IN
    IF EndsWithSlash(path) THEN send_error(h, 404, "File not found")
    ELSE IF ~CanOpen(f, path) THEN send_error(h0, 404, "File not found")
    ELSE IF h.req.ims THEN send_response(h0, 304)
    ELSE LET data == f[Resolve(path)].data
             h1 == send_response(h0, 200)
             h2 == send_header(h1, "Content-type", guess_type(path))
             h3 == send_header(h2, "Content-Length", ToString(Len(data)))
             h4 == send_header(h3, "Last-Modified", "mtime")
         IN [h4 EXCEPT !.pending = Pending(FileBody(data), path)]

\* SimpleHTTPRequestHandler.send_head up to its call of end_headers
send_head(h, f) ==
    LET path == translate_path(h.directory, h.path)
        h0 == [h EXCEPT !.fsaccess = @ \cup {path}]
        index1 == join(path, "index.html")
        index2 == join(path, "index.htm")
    IN IF isdir(f, path)
       THEN IF ~EndsWithSlash(h.path)
            THEN LET h1 == send_response(h0, 301)
                     h2 == send_header(h1, "Location", Text(h.path) \o "/")
                 IN send_header(h2, "Content-Length", "0")
            ELSE IF isfile(f, index1)
                 THEN send_file([h0 EXCEPT !.fsaccess = @ \cup {index1}], f, index1)
            ELSE IF isfile(f, index2)
                 THEN send_file([h0 EXCEPT !.fsaccess = @ \cup {index1, index2}],
                                f, index2)
            ELSE list_directory([h0 EXCEPT !.fsaccess = @ \cup {index1, index2}],
                                f, path)
       ELSE send_file(h0, f, path)

\* BaseHTTPRequestHandler.parse_request: the handler after it, and whether it
\* returned True; on False an error response is ready for end_headers
parse_request(h) ==
    LET req == h.req
        h0 == [h EXCEPT !.command = "None", !.request_version = "HTTP/0.9",
                        !.close_connection = TRUE]
        vn == version_number(req.version)
        \* close_connection stays True: protocol_version is below HTTP/1.1
        h1 == IF req.kind = "full" THEN [h0 EXCEPT !.request_version = req.version]
              ELSE h0
        h2 == [h1 EXCEPT !.command = req.command, !.path = ReduceSlashes(req.path)]
    IN IF req.kind = "full" /\ vn = <<>>
       THEN [ok |-> FALSE, h |-> send_error(h0, 400, "Bad request version")]
       ELSE IF req.kind = "full" /\ vn[1] >= 2
       THEN [ok |-> FALSE, h |-> send_error(h0, 505, "Invalid HTTP version")]
       ELSE IF req.kind = "simple" /\ req.command # "GET"
       THEN [ok |-> FALSE, h |-> send_error(h1, 400, "Bad HTTP/0.9 request type")]
       ELSE [ok |-> TRUE, h |-> h2]

\* handle_one_request without the test for a do_ method: every method is
\* answered as GET is
handle_one_request_any_method(h, f) ==
    IF h.req.kind = "long"
    THEN send_error([h EXCEPT !.request_version = "", !.command = ""], 414,
                    "Request-URI Too Long")
    ELSE LET parsed == parse_request(h) IN
         IF ~parsed.ok THEN parsed.h ELSE send_head(parsed.h, f)

\* BaseHTTPRequestHandler.handle_one_request up to the call of end_headers
\* that every one of its paths makes
handle_one_request(h, f) ==
    IF h.req.kind = "long"
    THEN send_error([h EXCEPT !.request_version = "", !.command = ""], 414,
                    "Request-URI Too Long")
    ELSE LET parsed == parse_request(h) IN
         IF ~parsed.ok THEN parsed.h
         ELSE IF parsed.h.command \notin {"GET", "HEAD"}
              THEN send_error(parsed.h, 501, "Unsupported method")
         ELSE send_head(parsed.h, f)

\* the body written whatever the command: a HEAD gets the file too
write_body_to_head(h, f) ==
    LET body == h.pending.body
        src == h.pending.src
    IN IF body.kind = "none" THEN h
       ELSE IF body.kind = "file" /\ f[Resolve(src)].fault = "read"
            THEN [h EXCEPT !.traceback = TRUE]
       ELSE [h EXCEPT !.wfile.body = Append(@, body)]

\* What follows end_headers: send_error writes its page; do_GET copies the
\* file or the listing (copyfile), which raises when the file cannot be read,
\* and do_HEAD closes it.  The exception leaves through handle_error, which
\* prints a traceback.
write_body(h, f) ==
    LET body == h.pending.body
        src == h.pending.src
    IN IF body.kind = "none" THEN h
       ELSE IF body.kind = "error"
            THEN [h EXCEPT !.wfile.body = Append(@, body)]
       ELSE IF h.command # "GET" THEN h
       ELSE IF body.kind = "file" /\ f[Resolve(src)].fault = "read"
            THEN [h EXCEPT !.traceback = TRUE]
       ELSE [h EXCEPT !.wfile.body = Append(@, body)]

(***************************************************************************)
(* The state of the process.                                                *)
(***************************************************************************)
VARIABLES
    environ,      \* os.environ: PORT and ROOT_DIR
    fs,           \* the filesystem: node -> File or Dir
    pc,           \* where main() is
    port,         \* main's port
    root,         \* main's root
    socket,       \* httpd.socket: "none", "listening" or "closed"
    closes,       \* calls of httpd.server_close so far
    exc,          \* the exception main() is unwinding with, or "none"
    interrupted,  \* where main() was when the interrupt signal arrived
    stdout,       \* the lines printed
    stderr,       \* the tracebacks printed by the interpreter
    exit_code,    \* the process's exit status, -1 while it runs
    conn          \* the handler of each connection accepted

vars == <<environ, fs, pc, port, root, socket, closes, exc, interrupted,
          stdout, stderr, exit_code, conn>>

main_vars == <<pc, port, root, socket, closes, exc, interrupted, stdout,
               stderr, exit_code>>

Conns == 1..MaxConn

Init ==
    /\ environ \in [PORT : PortChoices, ROOT_DIR : RootChoices]
    /\ fs \in FileSystems
    /\ pc = "start"
    /\ port = 0
    /\ root = Unset
    /\ socket = "none"
    /\ closes = 0
    /\ exc = "none"
    /\ interrupted = "none"
    /\ stdout = <<>>
    /\ stderr = <<>>
    /\ exit_code = -1
    /\ conn = [c \in Conns |-> NoHandler]

\* os.environ.get(name, default)
environ_get(name, default) ==
    IF environ[name] = Unset THEN default ELSE environ[name]

\* line 19's text
Banner(r, p) ==
    "Serving " \o Text(abspath(PathOf(r))) \o " on http://127.0.0.1:"
        \o ToString(p) \o " with no-cache headers"

ShutdownLine == "\nShutting down..."

\* TCPServer.server_close: socket.close(), which a closed socket accepts
server_close(sock) == "closed"

\* an exception leaves main(): the interpreter prints it and exits with 1
Die(e) ==
    /\ pc' = "exited"
    /\ exc' = e
    /\ stderr' = Append(stderr, e)
    /\ exit_code' = 1

(***************************************************************************)
(* main().                                                                  *)
(***************************************************************************)
\* lines 14-16
ReadEnv ==
    /\ pc = "start"
    /\ LET s == environ_get("PORT", "8000") IN
       IF IsNumeral(s)
       THEN /\ port' = int(s)
            /\ root' = environ_get("ROOT_DIR", "./")
            /\ pc' = "bind"
            /\ UNCHANGED <<exc, stderr, exit_code>>
       ELSE /\ Die("ValueError")
            /\ UNCHANGED <<port, root>>
    /\ UNCHANGED <<environ, fs, socket, closes, interrupted, stdout, conn>>

\* line 18 with the bind error swallowed: main() goes on without a
\* listening socket
Bind_swallowed ==
    /\ pc = "bind"
    /\ \/ socket' = "listening"
       \/ socket' = server_close(socket)
    /\ pc' = "banner"
    /\ UNCHANGED <<environ, fs, port, root, closes, exc, stderr, exit_code,
                   interrupted, stdout, conn>>

\* line 18: ThreadingHTTPServer(("127.0.0.1", port), handler) binds and
\* listens, or closes its socket and raises OSError
Bind ==
    /\ pc = "bind"
    /\ \/ /\ socket' = "listening"
          /\ pc' = "banner"
          /\ UNCHANGED <<closes, exc, stderr, exit_code>>
       \/ /\ socket' = server_close(socket)
          /\ closes' = closes + 1
          /\ Die("OSError")
    /\ UNCHANGED <<environ, fs, port, root, interrupted, stdout, conn>>

\* line 19
PrintBanner ==
    /\ pc = "banner"
    /\ stdout' = Append(stdout, Banner(root, port))
    /\ pc' = "serve"
    /\ UNCHANGED <<environ, fs, port, root, socket, closes, exc, interrupted,
                   stderr, exit_code, conn>>

\* line 21, serve_forever: a connection is accepted and given a thread with
\* a handler of its own; a request from the set reqs arrives on it
Accept(c, reqs) ==
    /\ pc = "serve"
    /\ socket = "listening"
    /\ conn[c].phase = "free"
    /\ \A d \in Conns : d < c => conn[d].phase # "free"
    /\ \E req \in reqs : conn' = [conn EXCEPT ![c] = NewHandler(PathOf(root), req)]
    /\ UNCHANGED <<environ, fs, main_vars>>

\* the interrupt signal with no except clause for it: KeyboardInterrupt goes
\* through the finally block and leaves main()
Interrupt_uncaught ==
    /\ \/ /\ pc = "serve"
          /\ pc' = "finally"
       \/ /\ pc = "banner"
          /\ pc' = "exit_with"
    /\ exc' = "KeyboardInterrupt"
    /\ interrupted' = pc
    /\ UNCHANGED <<environ, fs, port, root, socket, closes, stdout, stderr,
                   exit_code, conn>>

\* the interrupt signal: KeyboardInterrupt is raised in main(), inside the
\* try of line 20 or before it
Interrupt ==
    /\ \/ /\ pc = "serve"
          /\ pc' = "except"
       \/ /\ pc = "banner"
          /\ pc' = "exit_with"
    /\ exc' = "KeyboardInterrupt"
    /\ interrupted' = pc
    /\ UNCHANGED <<environ, fs, port, root, socket, closes, stdout, stderr,
                   exit_code, conn>>

\* another exception leaves serve_forever: no except clause catches it
ServeError ==
    /\ pc = "serve"
    /\ exc' = "Exception"
    /\ pc' = "finally"
    /\ UNCHANGED <<environ, fs, port, root, socket, closes, interrupted, stdout,
                   stderr, exit_code, conn>>

\* lines 22-23
ExceptKeyboardInterrupt ==
    /\ pc = "except"
    /\ stdout' = Append(stdout, ShutdownLine)
    /\ exc' = "none"
    /\ pc' = "finally"
    /\ UNCHANGED <<environ, fs, port, root, socket, closes, interrupted, stderr,
                   exit_code, conn>>

\* lines 24-25
Finally ==
    /\ pc = "finally"
    /\ socket' = server_close(socket)
    /\ closes' = closes + 1
    /\ pc' = "exit_with"
    /\ UNCHANGED <<environ, fs, port, root, exc, interrupted, stdout, stderr,
                   exit_code, conn>>

\* the end of the with block of line 18: __exit__ calls server_close, then
\* main() returns or the exception goes on
ExitWith ==
    /\ pc = "exit_with"
    /\ socket' = server_close(socket)
    /\ closes' = closes + 1
    /\ IF exc = "none"
       THEN /\ pc' = "exited"
            /\ exit_code' = 0
            /\ UNCHANGED <<exc, stderr>>
       ELSE Die(exc)
    /\ UNCHANGED <<environ, fs, port, root, interrupted, stdout, conn>>

(***************************************************************************)
(* The thread of a connection.  Threads are daemons: they run while the     *)
(* process does.                                                            *)
(***************************************************************************)
Alive == pc # "exited"

\* the headers buffer as an attribute of the class, shared by the handlers:
\* a handler starts with what another one has buffered
HandleRequest_shared_buffer(c) ==
    /\ Alive
    /\ conn[c].phase = "accepted"
    /\ \E d \in Conns :
           conn' = [conn EXCEPT ![c] =
               [handle_one_request(
                    [conn[c] EXCEPT !._headers_buffer = conn[d]._headers_buffer],
                    fs)
                EXCEPT !.phase = "buffered"]]
    /\ UNCHANGED <<environ, fs, main_vars>>

\* handle_one_request up to its call of end_headers
HandleRequest(c) ==
    /\ Alive
    /\ conn[c].phase = "accepted"
    /\ conn' = [conn EXCEPT ![c] =
                   [handle_one_request(conn[c], fs) EXCEPT !.phase = "buffered"]]
    /\ UNCHANGED <<environ, fs, main_vars>>

\* self.end_headers()
EndHeaders(c) ==
    /\ Alive
    /\ conn[c].phase = "buffered"
    /\ conn' = [conn EXCEPT ![c] = [end_headers(conn[c]) EXCEPT !.phase = "flushed"]]
    /\ UNCHANGED <<environ, fs, main_vars>>

\* the body, then finish() and shutdown_request(): the connection is closed
WriteBody(c) ==
    /\ Alive
    /\ conn[c].phase = "flushed"
    /\ conn' = [conn EXCEPT ![c] = [write_body(conn[c], fs) EXCEPT !.phase = "done"]]
    /\ UNCHANGED <<environ, fs, main_vars>>

Startup == ReadEnv \/ Bind \/ PrintBanner

Shutdown == Interrupt \/ ServeError \/ ExceptKeyboardInterrupt \/ Finally \/ ExitWith

Thread == \E c \in Conns : HandleRequest(c) \/ EndHeaders(c) \/ WriteBody(c)

(***************************************************************************)
(* The requests that arrive.                                                *)
(***************************************************************************)
\* a few requests, for the runs with several connections
Requests ==
    { Request("full", "GET", <<"", "index.html">>, "HTTP/1.0", FALSE),
      Request("full", "GET", <<"", "docs", "">>, "HTTP/1.1", FALSE),
      Request("simple", "GET", <<"", "index.html">>, "", FALSE) }

\* every request line and header over a few paths
HTTPPaths ==
    { <<"", "index.html">>, <<"", "missing.txt">>, <<"", "docs">>,
      <<"", "docs", "">>, <<"", "..", "secret.txt">>, <<"", "index.html", "">> }

HTTPRequests ==
    { Request("full", command, path, version, ims) :
        command \in {"GET", "HEAD", "POST", "DELETE"}, path \in HTTPPaths,
        version \in {"HTTP/0.9", "HTTP/1.0", "HTTP/1.1", "HTTP/2.0", "FOO/1.0"},
        ims \in BOOLEAN }
    \cup { Request("simple", command, path, "", FALSE) :
             command \in {"GET", "HEAD"}, path \in HTTPPaths }
    \cup { Request("long", "GET", <<"", "index.html">>, "HTTP/1.0", FALSE) }

\* every path of at most MaxSegs pieces
RECURSIVE PathsOfLen(_)
PathsOfLen(n) ==
    IF n = 1 THEN {<<p>> : p \in Pieces \ {""}}
    ELSE {Append(q, p) : q \in PathsOfLen(n - 1) \cup
                               (IF n = 2 THEN {<<"">>} ELSE {}), p \in Pieces}

Paths == UNION {PathsOfLen(n) : n \in 1..MaxSegs}

PathRequests ==
    { Request("full", command, path, "HTTP/1.0", FALSE) :
        command \in {"GET", "HEAD"}, path \in Paths }

(***************************************************************************)
(* Specifications.                                                          *)
(***************************************************************************)
\* the server from start to exit, with MaxConn connections
Next == Startup \/ Shutdown \/ Thread \/ \E c \in Conns : Accept(c, Requests)

Spec == Init /\ [][Next]_vars

\* one connection, every request line
NextHTTP == Startup \/ Thread \/ Accept(1, HTTPRequests)

SpecHTTP == Init /\ [][NextHTTP]_vars

\* one connection, every path
NextPaths == Startup \/ Thread \/ Accept(1, PathRequests)

SpecPaths == Init /\ [][NextPaths]_vars

(***************************************************************************)
(* Vocabulary of the properties.                                            *)
(***************************************************************************)
\* the handler has passed end_headers
Flushed(h) == h.phase \in {"flushed", "done"}

\* the status code on the wire, "" when the response has no status line
Status(h) == IF h.wfile.head = <<>> THEN "" ELSE h.wfile.head[1][2]

\* the response has a status line and a header block
HasHeaderBlock(h) == h.wfile.head # <<>>

\* something was written to the connection
Sent(h) == h.wfile.head # <<>> \/ h.wfile.body # <<>>

\* the number of header entries named keyword
Count(head, keyword) == Cardinality({i \in 1..Len(head) : head[i][1] = keyword})

\* the three cache-defeating headers are among the header entries
CarriesNoCache(head) == \A i \in 1..3 : NoCacheHeaders[i] \in Range(head)

\* the request line has three words and an HTTP/1.x version
IsHTTP1(req) == req.kind = "full" /\ req.version \in {"HTTP/1.0", "HTTP/1.1"}

\* the path string the handler of request req looks up
Target(h) == translate_path(h.directory, ReduceSlashes(h.req.path))

\* node lies in the directory tree of the handler's directory
Inside(h, node) == IsPrefix(Resolve(h.directory), node)

\* the data of the files outside the handler's directory
OutsideData(h) ==
    {fs[n].data : n \in {m \in DOMAIN fs : fs[m].type = "file" /\ ~Inside(h, m)}}

\* where the request path leads when its ".." pieces are followed from the
\* served directory without stopping at it
Followed(h) == Walk(Resolve(h.directory), unquote(ReduceSlashes(h.req.path)))

\* connection c's thread takes a step
ThreadStep(c) == conn[c].phase # "free" /\ conn'[c] # conn[c]

\* end_headers runs on connection c
EndHeadersStep(c) == conn[c].phase = "buffered" /\ conn'[c].phase = "flushed"

(***************************************************************************)
(* C1                                                                       *)
(***************************************************************************)
\* C1 as stated: every response sent, whatever its status, carries the three
\* cache-defeating headers.
C1_EveryResponse ==
    \A c \in Conns :
        conn[c].phase = "done" /\ Sent(conn[c])
            => CarriesNoCache(conn[c].wfile.head)

\* C1 amended: every response sent with a status line and header block (the
\* handler's request_version is not HTTP/0.9 when end_headers runs) carries
\* the three headers with their literal values, and end_headers keeps every
\* header the file-serving logic had produced, in place; a handler whose
\* request_version is HTTP/0.9 writes no header at all.
C1_HeadersOnEveryHeaderBlock ==
    /\ [](\A c \in Conns :
            Flushed(conn[c]) =>
                IF conn[c].request_version # "HTTP/0.9"
                THEN /\ CarriesNoCache(conn[c].wfile.head)
                     /\ Status(conn[c]) = ToString(conn[c].log[1])
                ELSE conn[c].wfile.head = <<>>)
    /\ [][\A c \in Conns :
            EndHeadersStep(c) =>
                /\ IsPrefix(conn[c]._headers_buffer, conn'[c].wfile.head)
                /\ conn[c].request_version # "HTTP/0.9" =>
                       /\ conn[c]._headers_buffer # <<>>
                       /\ CarriesNoCache(conn'[c].wfile.head)]_vars

\* a redirect and an error response went out with the three headers
C1_Witness ==
    \E c \in Conns :
        /\ conn[c].phase = "done"
        /\ Status(conn[c]) \in {"301", "404", "501"}
        /\ CarriesNoCache(conn[c].wfile.head)
        /\ <<"Connection", "close">> \in Range(conn[c].wfile.head)
               \/ Count(conn[c].wfile.head, "Location") = 1

(***************************************************************************)
(* C10                                                                      *)
(***************************************************************************)
\* the three entries before the blank line that ends the header block
LastThree(head) == SubSeq(head, Len(head) - 3, Len(head) - 1)

\* C10 as stated: in every response the three headers are the last three
\* header entries.
C10_EveryResponse ==
    \A c \in Conns :
        conn[c].phase = "done" /\ Sent(conn[c])
            => /\ Len(conn[c].wfile.head) >= 4
               /\ LastThree(conn[c].wfile.head) = NoCacheHeaders

\* C10 amended: in every response that has a header block, end_headers writes
\* the buffered headers, then Cache-Control, Pragma and Expires in this order,
\* then the blank line; each of the three occurs once; and the header block
\* is not changed afterwards.
C10_LastThreeInOrder ==
    /\ [](\A c \in Conns :
            Flushed(conn[c]) /\ HasHeaderBlock(conn[c]) =>
                /\ Len(conn[c].wfile.head) >= 5
                /\ Last(conn[c].wfile.head) = <<"", "">>
                /\ LastThree(conn[c].wfile.head) = NoCacheHeaders
                /\ \A i \in 1..3 :
                       Count(conn[c].wfile.head, NoCacheHeaders[i][1]) = 1)
    /\ [][\A c \in Conns :
            /\ EndHeadersStep(c) /\ conn[c].request_version # "HTTP/0.9" =>
                   conn'[c].wfile.head =
                       conn[c]._headers_buffer \o NoCacheHeaders \o << <<"", "">> >>
            /\ Flushed(conn[c]) =>
                   /\ conn'[c].wfile.head = conn[c].wfile.head
                   /\ conn'[c]._headers_buffer = <<>>]_vars

\* a file went out: its headers, then the three, then its body
C10_Witness ==
    \E c \in Conns :
        /\ conn[c].phase = "done"
        /\ Status(conn[c]) = "200"
        /\ Count(conn[c].wfile.head, "Last-Modified") = 1
        /\ conn[c].wfile.body # <<>>
        /\ LastThree(conn[c].wfile.head) = NoCacheHeaders

Escapes(h) == ~Inside(h, Followed(h))

\* the body holds the data of a file outside the served directory
Leaks(h) ==
    /\ h.wfile.body # <<>>
    /\ \/ h.wfile.body[1].kind = "file" /\ h.wfile.body[1].text \in OutsideData(h)
       \/ /\ h.wfile.body[1].kind = "listing"
          /\ ~Inside(h, Resolve(Target(h)))

TargetIsFile(h) == isfile(fs, Target(h))

\* the file's bytes
TargetData(h) == fs[Resolve(Target(h))].data

Unsupported(req) == req.command \notin {"GET", "HEAD"}

ReadFails(h) ==
    /\ h.req.command = "GET" /\ ~h.req.ims
    /\ TargetIsFile(h)
    /\ fs[Resolve(Target(h))].fault # "none"

\* C5 as stated: a filesystem error while reading a file gets a 500 response.
C5_ReadErrorIs500 ==
    \A c \in Conns :
        conn[c].phase = "done" /\ ReadFails(conn[c]) /\ IsHTTP1(conn[c].req) =>
            Status(conn[c]) = "500"

\* the status code a response to request req carries when the handler sends
\* code: none when the request line is of the kind that gets no status line
OnWire(req, code) == IF IsHTTP1(req) THEN code ELSE ""

\* C5 amended: a file that cannot be opened gets the 404 response of a missing
\* file; a file that opens and then cannot be read gets the 200 status line
\* and headers, no body, and a traceback from its thread; no response is ever
\* a 500.  No step of a connection's thread, failing or not, changes the
\* state of main(): the server goes on in its serve loop with its socket
\* listening.
C5_ReadErrorIs404OrTruncated ==
    /\ [](\A c \in Conns :
            /\ 500 \notin Range(conn[c].log)
            /\ Status(conn[c]) # "500"
            /\ conn[c].phase = "done" /\ ReadFails(conn[c]) =>
                   IF fs[Resolve(Target(conn[c]))].fault = "open"
                   THEN /\ conn[c].log = <<404>>
                        /\ Status(conn[c]) = OnWire(conn[c].req, "404")
                        /\ conn[c].wfile.body = <<ErrorBody(404, "File not found")>>
                        /\ ~conn[c].traceback
                   ELSE /\ conn[c].log = <<200>>
                        /\ Status(conn[c]) = OnWire(conn[c].req, "200")
                        /\ conn[c].wfile.body = <<>>
                        /\ conn[c].traceback
            /\ conn[c].traceback => ReadFails(conn[c]))
    /\ [][\A c \in Conns : ThreadStep(c) => UNCHANGED main_vars]_vars

\* a read has failed and the server is in its serve loop, its socket
\* listening, ready to accept the next connection
C5_Witness ==
    \E c, d \in Conns :
        /\ conn[c].phase = "done"
        /\ conn[c].traceback
        /\ Status(conn[c]) = "200"
        /\ conn[d].phase = "free"
        /\ pc = "serve" /\ socket = "listening" /\ exit_code = -1

(***************************************************************************)
(* C7                                                                       *)
(***************************************************************************)
\* C7: after an interrupt in the serve loop no connection is accepted, the
\* shutdown line is printed, the socket is closed by line 25 and again, to no
\* effect and without an exception, by the with statement, and the process
\* exits with status 0 and no traceback; on every way out of the serve loop
\* the socket is closed when the process exits.
C7_InterruptIsCleanShutdown ==
    /\ [](/\ interrupted = "serve" /\ pc = "exited" =>
                /\ exit_code = 0
                /\ stderr = <<>>
                /\ exc = "none"
                /\ Len(stdout) = 2 /\ stdout[2] = ShutdownLine
                /\ socket = "closed"
                /\ closes = 2
          /\ interrupted = "serve" /\ pc = "exit_with" =>
                socket = "closed" /\ stdout[Len(stdout)] = ShutdownLine
          /\ pc = "exited" /\ stdout # <<>> => socket = "closed"
          /\ pc = "exited" => socket # "listening")
    /\ [][/\ interrupted # "none" =>
                \A c \in Conns : conn[c].phase = "free" => conn'[c].phase = "free"
          /\ socket = "closed" => socket' = "closed"
          /\ pc = "exit_with" /\ socket = "closed" => exc' = exc]_vars

\* the process has exited after an interrupt in the serve loop
C7_Witness ==
    /\ pc = "exited"
    /\ interrupted = "serve"
    /\ closes = 2
    /\ \E c \in Conns : conn[c].phase \in {"accepted", "buffered", "flushed"}

(***************************************************************************)
(* C8                                                                       *)
(***************************************************************************)
\* the constructor of line 18 raised
BindFailed == "OSError" \in Range(stderr)

\* C8: when the bind fails the process has exited, in that step, with status 1
\* and a traceback, nothing was printed to stdout and no connection is ever
\* accepted; the banner is printed only once the socket listens, and a
\* connection is accepted only after the banner.
C8_BindFailureIsFatal ==
    /\ [](/\ BindFailed =>
                /\ pc = "exited"
                /\ exit_code = 1
                /\ stdout = <<>>
                /\ socket = "closed"
                /\ \A c \in Conns : conn[c].phase = "free"
          /\ stdout # <<>> =>
                /\ stdout[1] = Banner(root, port)
                /\ socket # "none"
                /\ ~BindFailed
          /\ (\E c \in Conns : conn[c].phase # "free") =>
                stdout # <<>> /\ stdout[1] = Banner(root, port))
    /\ [][/\ pc = "bind" /\ socket' # "listening" => pc' = "exited" /\ BindFailed'
          /\ stdout = <<>> /\ stdout' # <<>> => socket = "listening"]_vars

\* the bind has failed
C8_Witness == BindFailed /\ pc = "exited" /\ port = 8000

(***************************************************************************)
(* C9                                                                       *)
(***************************************************************************)
\* the cache-defeating headers of a header block
NoCacheOf(head) ==
    SelectSeq(head, LAMBDA e : e[1] \in {"Cache-Control", "Pragma", "Expires"})

\* the response of a handler that runs alone from request to end
Alone(directory, req) ==
    write_body(end_headers(handle_one_request(NewHandler(directory, req), fs)), fs)

====
